---- MODULE Spec2Model ----
(***************************************************************************)
(* Model of analysis/json_to_csv_v1.py and analysis/json_to_csv_v3.py:     *)
(* two batch converters that list a directory, keep the session files,     *)
(* parse each one and write two CSV rows per round.                        *)
(*                                                                         *)
(* File names are sequences of one-character strings, so that endswith and *)
(* the substring tests are computed.  JSON values are tagged records; the  *)
(* CSV writer's rendering of a value is CsvCell.  A row of the output file *)
(* is a record whose field cells is the row's content; kind, f and ri are  *)
(* history annotations (what wrote the row) used only by the properties.   *)
(***************************************************************************)
EXTENDS Integers, Sequences, FiniteSets, TLC

VARIABLES version, dir_ok, listing, fs, csv_output, write_index, files, fi,
          parsed_data, round_data, ri, p1_vals, p2_vals, stdout, opened,
          pc, err, runs, prev_output

vars == <<version, dir_ok, listing, fs, csv_output, write_index, files, fi,
          parsed_data, round_data, ri, p1_vals, p2_vals, stdout, opened,
          pc, err, runs, prev_output>>

(* ------------------------------ bounds --------------------------------- *)
MaxFiles == 2
MaxRounds == 2
MaxRuns == 2

(* --------------------------- JSON values ------------------------------- *)
Str(s) == [t |-> "str", s |-> s]
Num(n) == [t |-> "num", n |-> n]
Bool(b) == [t |-> "bool", b |-> b]
Null == [t |-> "null"]
NA == Str("NA")

Drop(d, k) == [x \in DOMAIN d \ {k} |-> d[x]]

\* csv.writer: strings as they are, None as the empty field, other values by str()
CsvCell(v) ==
    CASE v.t = "str" -> v.s
      [] v.t = "num" -> ToString(v.n)
      [] v.t = "bool" -> (IF v.b THEN "True" ELSE "False")
      [] v.t = "null" -> ""

(* --------------------------- file names -------------------------------- *)
N_g1 == <<"g","1",".","j","s","o","n">>
N_test == <<"t","e","s","t",".","j","s","o","n">>
N_pilot == <<"p","i","l","o","t","_","T","E","S","T","_","0","1",".","j","s","o","n">>
N_free == <<"g","1","_","f","r","e","e","R","e","s","p",".","j","s","o","n">>
N_slider == <<"g","1","_","s","l","i","d","e","r","D","a","t","a",".","j","s","o","n">>
N_bak == <<"g","1",".","j","s","o","n",".","b","a","k">>

Names == {N_g1, N_test, N_pilot, N_free, N_slider, N_bak}

EXT_JSON == <<".","j","s","o","n">>
MARK_TEST == <<"T","E","S","T">>
MARK_FREE == <<"f","r","e","e","R","e","s","p">>
MARK_SLIDER == <<"s","l","i","d","e","r","D","a","t","a">>

\* str.endswith
EndsWith(s, suf) ==
    /\ Len(s) >= Len(suf)
    /\ SubSeq(s, Len(s) - Len(suf) + 1, Len(s)) = suf

\* the Python operator "sub in s" on strings
Contains(s, sub) ==
    \E i \in 1..(Len(s) - Len(sub) + 1) : SubSeq(s, i, i + Len(sub) - 1) = sub

\* mutation: the test-fixture marker is not checked
IsSelectedNoTest(f) ==
    /\ EndsWith(f, EXT_JSON)
    /\ ~Contains(f, MARK_FREE)
    /\ ~Contains(f, MARK_SLIDER)

IsSelected(f) ==
    /\ EndsWith(f, EXT_JSON)
    /\ ~Contains(f, MARK_TEST)
    /\ ~Contains(f, MARK_FREE)
    /\ ~Contains(f, MARK_SLIDER)

RECURSIVE Filter(_)
Filter(l) ==
    IF l = <<>> THEN <<>>
    ELSE IF IsSelected(Head(l)) THEN <<Head(l)>> \o Filter(Tail(l))
    ELSE Filter(Tail(l))

\* files = [f for f in listdir(DATA_PATH) if ...]
SelectFiles(l) == Filter(l)

(* ------------------------- session documents --------------------------- *)
MkRound(i) ==
    [game_id |-> Str("g1"), round_index |-> Num(20 + i),
     player1_id |-> Str("p1"), player2_id |-> Str("p2"),
     round_begin_ts |-> Num(1000 + i),
     player1_move |-> Str("rock"), player2_move |-> Str("scissors"),
     player1_rt |-> Num(500 + i), player2_rt |-> Num(600 + i),
     player1_outcome |-> Str("win"), player2_outcome |-> Str("lose"),
     player1_outcome_viewtime |-> Num(200 + i),
     player2_outcome_viewtime |-> (IF i = 2 THEN Null ELSE Num(250 + i)),
     player1_points |-> Num(13), player2_points |-> Num(17),
     player1_total |-> Num(30 + i), player2_total |-> Num(40 + i),
     player2_memory_struct |-> Str("mem")]

R_full == MkRound(0)
R_noMove == Drop(MkRound(1), "player2_move")
R_noMem == Drop(MkRound(2), "player2_memory_struct")
R_noP2Total == Drop(MkRound(3), "player2_total")
R_noP2Id == Drop(MkRound(4), "player2_id")

RoundPool == {R_full, R_noMove, R_noMem, R_noP2Total}

RoundSeqs == UNION {[1..n -> RoundPool] : n \in 0..MaxRounds}

S_full ==
    [version |-> Str("3.0"), sona |-> Bool(TRUE), experiment_id |-> Num(77),
     credit_token |-> Str("tok"), survey_code |-> Null,
     player2_bot_strategy |-> Str("nash"), player2_botid |-> Str("bot9")]
S_noVersion == Drop(S_full, "version")

Doc(s, rs) == [k \in DOMAIN s \cup {"rounds"} |-> IF k = "rounds" THEN rs ELSE s[k]]

Unreadable == [readable |-> FALSE]
BadJson == [readable |-> TRUE, valid |-> FALSE]
Json(d) == [readable |-> TRUE, valid |-> TRUE, doc |-> d]

Contents ==
    {Unreadable, BadJson, Json(S_full)}
    \cup {Json(Doc(S_full, rs)) : rs \in RoundSeqs}
    \cup {Json(Doc(S_noVersion, <<>>)), Json(Doc(S_noVersion, <<R_full>>)),
          Json(Doc(S_full, <<R_noP2Id>>))}

\* the content of every file but g1.json and test.json
FixedContent == Json(Doc(S_full, <<R_full>>))

\* the contents of test.json; g1.json takes every content of Contents
FewContents ==
    {FixedContent, Unreadable, BadJson, Json(S_full), Json(Doc(S_full, <<>>)),
     Json(Doc(S_full, <<R_noP2Total>>)), Json(Doc(S_full, <<R_noMove, R_noMem>>))}

Listings ==
    {l \in UNION {[1..n -> Names] : n \in 0..MaxFiles} :
        \A i, j \in DOMAIN l : l[i] = l[j] => i = j}

Range(s) == {s[i] : i \in DOMAIN s}

(* ----------------------------- the rows -------------------------------- *)
HeaderV1 ==
    <<"game_id", "round_index", "player_id", "round_begin_ts",
      "player_move", "player_rt", "player_outcome", "player_outcome_viewtime",
      "player_points", "player_total">>

HeaderV3 ==
    <<"game_id", "version", "is_sona_autocredit", "sona_experiment_id",
      "sona_credit_token", "sona_survey_code",
      "round_index", "player_id", "is_bot", "bot_strategy", "bot_round_memory",
      "round_begin_ts", "player_move", "player_rt", "player_outcome",
      "player_outcome_viewtime", "player_points", "player_total">>

header(v) == IF v = "v1" THEN HeaderV1 ELSE HeaderV3

\* the expressions of a row: r[key], parsed_data[key], a constant, or a
\* round field replaced by "NA" when the round does not hold it
R(k) == [src |-> "r", key |-> k]
S(k) == [src |-> "s", key |-> k]
Const(c) == [src |-> "const", val |-> c]
Opt(k) == [src |-> "opt", key |-> k]

\* mutation: the player-1 row takes player 2's reaction time
P1TemplateV1Swapped ==
    <<R("game_id"), R("round_index"), R("player1_id"), R("round_begin_ts"),
      R("player1_move"), R("player2_rt"), R("player1_outcome"),
      R("player1_outcome_viewtime"), R("player1_points"), R("player1_total")>>

P1TemplateV1 ==
    <<R("game_id"), R("round_index"), R("player1_id"), R("round_begin_ts"),
      R("player1_move"), R("player1_rt"), R("player1_outcome"),
      R("player1_outcome_viewtime"), R("player1_points"), R("player1_total")>>

P2TemplateV1 ==
    <<R("game_id"), R("round_index"), R("player2_id"), R("round_begin_ts"),
      R("player2_move"), R("player2_rt"), R("player2_outcome"),
      R("player2_outcome_viewtime"), R("player2_points"), R("player2_total")>>

P1TemplateV3 ==
    <<R("game_id"),
      S("version"), S("sona"), S("experiment_id"), S("credit_token"), S("survey_code"),
      R("round_index"), R("player1_id"), Const(Num(0)),
      S("player2_bot_strategy"), Const(NA),
      R("round_begin_ts"),
      R("player1_move"), R("player1_rt"), R("player1_outcome"),
      R("player1_outcome_viewtime"), R("player1_points"), R("player1_total")>>

\* mutation: the move is subscripted like the other fields (the line the
\* source keeps as a comment)
P2TemplateV3MoveRequired ==
    <<R("game_id"),
      S("version"), S("sona"), S("experiment_id"), S("credit_token"), S("survey_code"),
      R("round_index"), S("player2_botid"), Const(Num(1)),
      S("player2_bot_strategy"), Opt("player2_memory_struct"),
      R("round_begin_ts"),
      R("player2_move"),
      R("player2_rt"), R("player2_outcome"),
      R("player2_outcome_viewtime"), R("player2_points"), R("player2_total")>>

P2TemplateV3 ==
    <<R("game_id"),
      S("version"), S("sona"), S("experiment_id"), S("credit_token"), S("survey_code"),
      R("round_index"), S("player2_botid"), Const(Num(1)),
      S("player2_bot_strategy"), Opt("player2_memory_struct"),
      R("round_begin_ts"),
      Opt("player2_move"),
      R("player2_rt"), R("player2_outcome"),
      R("player2_outcome_viewtime"), R("player2_points"), R("player2_total")>>

P1Template(v) == IF v = "v1" THEN P1TemplateV1 ELSE P1TemplateV3
P2Template(v) == IF v = "v1" THEN P2TemplateV1 ELSE P2TemplateV3

\* building the list raises KeyError when a subscripted key is absent
KeyError(tpl, s, r) ==
    \E i \in DOMAIN tpl :
        \/ tpl[i].src = "r" /\ tpl[i].key \notin DOMAIN r
        \/ tpl[i].src = "s" /\ tpl[i].key \notin DOMAIN s

EvalCol(c, s, r) ==
    CASE c.src = "r" -> r[c.key]
      [] c.src = "s" -> s[c.key]
      [] c.src = "const" -> c.val
      [] c.src = "opt" -> (IF c.key \in DOMAIN r THEN r[c.key] ELSE NA)

Vals(tpl, s, r) == [i \in DOMAIN tpl |-> EvalCol(tpl[i], s, r)]

\* csvwriter.writerow(vals)
Row(kind, f, i, vals) ==
    [kind |-> kind, f |-> f, ri |-> i, cells |-> [j \in DOMAIN vals |-> CsvCell(vals[j])]]

HeaderRow(v, f) == [kind |-> "header", f |-> f, ri |-> 0, cells |-> header(v)]

OldRow == [kind |-> "old", f |-> <<>>, ri |-> 0, cells |-> <<"junk">>]

\* mutation: the output file is opened in append mode
OpenOutputAppend(old) == old

\* mutation: the header is written as soon as the output file is open
OpenOutputEagerHeader(old) == <<[kind |-> "header", f |-> <<>>, ri |-> 0, cells |-> HeaderV1]>>

\* io.open(output_file, "w") truncates the file
OpenOutput(old) == <<>>

\* mutation: the header flag is not consulted
NeedHeaderAlways(wi) == TRUE

NeedHeader(wi) == wi = 0

\* mutation: no progress line
ProgressLineMute(out, f) == out

\* print("Processing: {}".format(f))
ProgressLine(out, f) == Append(out, f)

\* mutation: each row is written as soon as it is built
StepOrderInterleaved == <<"build_p1", "write_p1", "build_p2", "write_p2">>

\* mutation: the two writerow calls are exchanged
StepOrderP2First == <<"build_p1", "build_p2", "write_p2", "write_p1">>

\* the statements of the body of "for r in round_data", in program order
StepOrder == <<"build_p1", "build_p2", "write_p1", "write_p2">>

StepPos(step) == CHOOSE i \in DOMAIN StepOrder : StepOrder[i] = step
IsLastStep(step) == StepPos(step) = Len(StepOrder)
NextStep(step) == IF IsLastStep(step) THEN "rounds" ELSE StepOrder[StepPos(step) + 1]

(* -------------------------------- Init --------------------------------- *)
Init ==
    /\ version \in {"v1", "v3"}
    /\ \E l \in Listings :
         \E c1 \in (IF N_g1 \in Range(l) THEN Contents ELSE {FixedContent}),
            c2 \in (IF N_test \in Range(l) THEN FewContents ELSE {FixedContent}) :
           /\ listing = l
           /\ dir_ok \in (IF l = <<>> THEN BOOLEAN ELSE {TRUE})
           /\ fs = [n \in Names |-> IF n = N_g1 THEN c1 ELSE IF n = N_test THEN c2
                                     ELSE FixedContent]
    /\ csv_output \in {<<>>, <<OldRow>>}
    /\ write_index = 0
    /\ files = <<>>
    /\ fi = 1
    /\ parsed_data = <<>>
    /\ round_data = <<>>
    /\ ri = 1
    /\ p1_vals = <<>>
    /\ p2_vals = <<>>
    /\ stdout = <<>>
    /\ opened = <<>>
    /\ pc = "init"
    /\ err = "none"
    /\ runs = 1
    /\ prev_output = <<>>

env == <<version, dir_ok, listing, fs>>

\* mutation: the exception is swallowed and the run ends normally
FailSwallowed(kind) == pc' = "done" /\ err' = kind

\* an exception is caught nowhere: it ends the run
Fail(kind) == pc' = "failed" /\ err' = kind

(* ------------------------------ actions -------------------------------- *)
\* open the output file, list and filter the directory
Start ==
    /\ pc = "init"
    /\ csv_output' = OpenOutput(csv_output)
    /\ write_index' = 0
    /\ IF dir_ok
       THEN /\ files' = SelectFiles(listing)
            /\ pc' = "files"
            /\ err' = err
       ELSE /\ files' = files
            /\ Fail("listdir")
    /\ fi' = 1
    /\ UNCHANGED <<env, parsed_data, round_data, ri, p1_vals, p2_vals, stdout,
                   opened, runs, prev_output>>

\* io.open(join(DATA_PATH + f)) and, once the file is open, the progress line
OpenFile ==
    /\ pc = "files"
    /\ fi <= Len(files)
    /\ IF fs[files[fi]].readable
       THEN /\ opened' = Append(opened, files[fi])
            /\ stdout' = ProgressLine(stdout, files[fi])
            /\ pc' = "read"
            /\ err' = err
       ELSE /\ Fail("open")
            /\ UNCHANGED <<opened, stdout>>
    /\ UNCHANGED <<env, csv_output, write_index, files, fi, parsed_data,
                   round_data, ri, p1_vals, p2_vals, runs, prev_output>>

\* readfile.read(), json.loads, parsed_data["rounds"], then the header
ReadFile ==
    /\ pc = "read"
    /\ LET c == fs[files[fi]] IN
         IF ~c.valid
         THEN /\ Fail("json")
              /\ UNCHANGED <<parsed_data, round_data, csv_output, write_index, ri>>
         ELSE IF "rounds" \notin DOMAIN c.doc
         THEN /\ Fail("key")
              /\ parsed_data' = c.doc
              /\ UNCHANGED <<round_data, csv_output, write_index, ri>>
         ELSE /\ parsed_data' = c.doc
              /\ round_data' = c.doc["rounds"]
              /\ IF NeedHeader(write_index)
                 THEN /\ csv_output' = Append(csv_output, HeaderRow(version, files[fi]))
                      /\ write_index' = 1
                 ELSE UNCHANGED <<csv_output, write_index>>
              /\ ri' = 1
              /\ pc' = "rounds"
              /\ err' = err
    /\ UNCHANGED <<env, files, fi, p1_vals, p2_vals, stdout, opened, runs, prev_output>>

\* for r in round_data: the next round
NextRound ==
    /\ pc = "rounds"
    /\ ri <= Len(round_data)
    /\ pc' = StepOrder[1]
    /\ UNCHANGED <<env, csv_output, write_index, files, fi, parsed_data, round_data,
                   ri, p1_vals, p2_vals, stdout, opened, err, runs, prev_output>>

\* the rounds are exhausted: the input file is closed, on to the next file
EndFile ==
    /\ pc = "rounds"
    /\ ri > Len(round_data)
    /\ fi' = fi + 1
    /\ pc' = "files"
    /\ UNCHANGED <<env, csv_output, write_index, files, parsed_data, round_data,
                   ri, p1_vals, p2_vals, stdout, opened, err, runs, prev_output>>

AfterStep(step) ==
    /\ pc' = NextStep(step)
    /\ ri' = IF IsLastStep(step) THEN ri + 1 ELSE ri
    /\ err' = err

BuildP1 ==
    /\ pc = "build_p1"
    /\ IF KeyError(P1Template(version), parsed_data, round_data[ri])
       THEN /\ Fail("key")
            /\ UNCHANGED <<p1_vals, ri>>
       ELSE /\ p1_vals' = Vals(P1Template(version), parsed_data, round_data[ri])
            /\ AfterStep("build_p1")
    /\ UNCHANGED <<env, csv_output, write_index, files, fi, parsed_data, round_data,
                   p2_vals, stdout, opened, runs, prev_output>>

BuildP2 ==
    /\ pc = "build_p2"
    /\ IF KeyError(P2Template(version), parsed_data, round_data[ri])
       THEN /\ Fail("key")
            /\ UNCHANGED <<p2_vals, ri>>
       ELSE /\ p2_vals' = Vals(P2Template(version), parsed_data, round_data[ri])
            /\ AfterStep("build_p2")
    /\ UNCHANGED <<env, csv_output, write_index, files, fi, parsed_data, round_data,
                   p1_vals, stdout, opened, runs, prev_output>>

WriteP1 ==
    /\ pc = "write_p1"
    /\ csv_output' = Append(csv_output, Row("p1", files[fi], ri, p1_vals))
    /\ AfterStep("write_p1")
    /\ UNCHANGED <<env, write_index, files, fi, parsed_data, round_data,
                   p1_vals, p2_vals, stdout, opened, runs, prev_output>>

WriteP2 ==
    /\ pc = "write_p2"
    /\ csv_output' = Append(csv_output, Row("p2", files[fi], ri, p2_vals))
    /\ AfterStep("write_p2")
    /\ UNCHANGED <<env, write_index, files, fi, parsed_data, round_data,
                   p1_vals, p2_vals, stdout, opened, runs, prev_output>>

\* the files are exhausted: the output file is closed, the process exits
Finish ==
    /\ pc = "files"
    /\ fi > Len(files)
    /\ pc' = "done"
    /\ UNCHANGED <<env, csv_output, write_index, files, fi, parsed_data, round_data,
                   ri, p1_vals, p2_vals, stdout, opened, err, runs, prev_output>>

\* the script is run again on the same directory; the output file stays on disk
Rerun ==
    /\ pc \in {"done", "failed"}
    /\ runs < MaxRuns
    /\ runs' = runs + 1
    /\ prev_output' = csv_output
    /\ pc' = "init"
    /\ err' = "none"
    /\ write_index' = 0
    /\ files' = <<>>
    /\ fi' = 1
    /\ parsed_data' = <<>>
    /\ round_data' = <<>>
    /\ ri' = 1
    /\ p1_vals' = <<>>
    /\ p2_vals' = <<>>
    /\ stdout' = <<>>
    /\ opened' = <<>>
    /\ UNCHANGED <<env, csv_output>>

Next ==
    \/ Start
    \/ OpenFile
    \/ ReadFile
    \/ NextRound
    \/ EndFile
    \/ BuildP1
    \/ BuildP2
    \/ WriteP1
    \/ WriteP2
    \/ Finish

\* one run of a script
Spec == Init /\ [][Next]_vars

NextTwice ==
    \/ Start
    \/ OpenFile
    \/ ReadFile
    \/ NextRound
    \/ EndFile
    \/ BuildP1
    \/ BuildP2
    \/ WriteP1
    \/ WriteP2
    \/ Finish
    \/ Rerun

\* a script run again and again on the same directory
SpecTwice == Init /\ [][NextTwice]_vars

(* ====================== properties of the scripts ====================== *)
IsData(row) == row.kind \in {"p1", "p2"}
DataRows == SelectSeq(csv_output, IsData)
HeaderCount == Cardinality({i \in DOMAIN csv_output : csv_output[i].kind = "header"})
Tag(row) == <<row.f, row.ri, row.kind>>
Tags(rows) == [i \in DOMAIN rows |-> Tag(rows[i])]
Ended == pc \in {"done", "failed"}
DocOf(f) == fs[f].doc
RoundsOf(f) == fs[f].doc["rounds"]

(* ------------------------------- C1 ------------------------------------ *)
\* C1 as stated: every completed run has written the header exactly once.
C1_HeaderExactlyOncePerRun == pc = "done" => HeaderCount = 1

\* C1 (amended): the header is written at most once per run; it is the first
\* row of the file and so precedes every data row; it is written while the
\* first selected file is processed and never for a later file; a completed
\* run has written it exactly once when at least one file was selected and
\* not at all when none was.
C1_HeaderOnceFirst ==
    /\ HeaderCount <= 1
    /\ \A i \in DOMAIN csv_output :
         /\ csv_output[i].kind = "header" =>
              i = 1 /\ csv_output[i].cells = header(version)
         /\ IsData(csv_output[i]) => i > 1 /\ csv_output[1].kind = "header"
    /\ (pc # "init" /\ HeaderCount = 1) =>
         csv_output[1].f = files[1] /\ write_index = 1
    /\ (pc # "init" /\ HeaderCount = 0) => write_index = 0
    /\ pc = "done" => HeaderCount = (IF files = <<>> THEN 0 ELSE 1)

C1_Witness ==
    /\ pc = "done"
    /\ Len(files) = 2
    /\ HeaderCount = 1
    /\ \E i, j \in DOMAIN csv_output :
         /\ IsData(csv_output[i]) /\ csv_output[i].f = files[1]
         /\ IsData(csv_output[j]) /\ csv_output[j].f = files[2]

(* ------------------------------- C2 ------------------------------------ *)
FileTags(f, n) ==
    [k \in 1..(2 * n) |-> <<f, (k + 1) \div 2, IF k % 2 = 1 THEN "p1" ELSE "p2">>]

RECURSIVE AllTags(_)
AllTags(fl) ==
    IF fl = <<>> THEN <<>>
    ELSE FileTags(Head(fl), Len(RoundsOf(Head(fl)))) \o AllTags(Tail(fl))

RECURSIVE SumRounds(_)
SumRounds(fl) ==
    IF fl = <<>> THEN 0 ELSE Len(RoundsOf(Head(fl))) + SumRounds(Tail(fl))

InSelection(n) == n \in Range(files)

\* C2: after a run that completes, the data rows are, for each selected file
\* in listing order and each round in the order of the rounds list, the
\* player-1 row and then the player-2 row: 2*Ni rows per file and
\* 2*(N1+...+Nk) in all.
C2_RowOrder ==
    pc = "done" =>
        /\ files = SelectSeq(listing, InSelection)
        /\ Tags(DataRows) = AllTags(files)
        /\ Len(DataRows) = 2 * SumRounds(files)
        /\ \A f \in Range(files) :
             Cardinality({i \in DOMAIN DataRows : DataRows[i].f = f}) = 2 * Len(RoundsOf(f))

C2_Witness ==
    /\ pc = "done"
    /\ Len(files) = 2
    /\ Len(RoundsOf(files[1])) = 2
    /\ Len(RoundsOf(files[2])) = 1
    /\ Len(DataRows) = 6

(* ------------------------------- C3 ------------------------------------ *)
HasPart(n, part) == \E i, j \in 1..Len(n) : SubSeq(n, i, j) = part

ClaimSelectedName(n) ==
    /\ \E i \in 0..Len(n) : SubSeq(n, 1, i) \o <<".", "j", "s", "o", "n">> = n
    /\ ~HasPart(n, <<"T", "E", "S", "T">>)
    /\ ~HasPart(n, <<"f", "r", "e", "e", "R", "e", "s", "p">>)
    /\ ~HasPart(n, <<"s", "l", "i", "d", "e", "r", "D", "a", "t", "a">>)

ClaimUnselected == {n \in Names : ~ClaimSelectedName(n)}
ClaimSelected(n) == n \notin ClaimUnselected

Touched ==
    Range(opened) \cup Range(stdout)
    \cup {csv_output[i].f : i \in {j \in DOMAIN csv_output : csv_output[j].kind # "old"}}

\* C3: a file name is selected exactly when it ends with ".json" and holds
\* none of "TEST", "freeResp", "sliderData"; a file that is not selected
\* (pilot_TEST_01.json for one) is never opened, never printed and gives no row.
C3_Selection ==
    /\ (pc # "init" /\ dir_ok) => files = SelectSeq(listing, ClaimSelected)
    /\ Touched \cap ClaimUnselected = {}
    /\ N_pilot \in ClaimUnselected

C3_Witness ==
    /\ pc = "done"
    /\ N_pilot \in Range(listing)
    /\ Len(files) = 1
    /\ DataRows # <<>>
    /\ N_pilot \notin Touched

(* ------------------------------- C4 ------------------------------------ *)
\* C4: a run with no selected file ends with an empty output file, without
\* even the header; whenever the output holds the header, at least one file
\* had been started.
C4_LazyHeader ==
    /\ (pc = "done" /\ files = <<>>) => csv_output = <<>>
    /\ (pc # "init" /\ HeaderCount > 0) => opened # <<>>

C4_Witness ==
    /\ pc = "done"
    /\ listing # <<>>
    /\ files = <<>>
    /\ csv_output = <<>>
(* ------------------------------- C5 ------------------------------------ *)
\* the fields of a round record and of a v3 session record
RoundFields ==
    {"game_id", "round_index", "round_begin_ts",
     "player1_id", "player1_move", "player1_rt", "player1_outcome",
     "player1_outcome_viewtime", "player1_points", "player1_total",
     "player2_id", "player2_move", "player2_rt", "player2_outcome",
     "player2_outcome_viewtime", "player2_points", "player2_total",
     "player2_memory_struct"}
OptionalV3 == {"player2_move", "player2_memory_struct"}
SessionFieldsV3 ==
    {"version", "sona", "experiment_id", "credit_token", "survey_code",
     "player2_bot_strategy", "player2_botid"}

\* the fields whose absence raises: those a script subscripts
ReadRound(v) ==
    IF v = "v1" THEN RoundFields \ {"player2_memory_struct"}
    ELSE RoundFields \ (OptionalV3 \cup {"player2_id"})
ReadSession(v) == IF v = "v1" THEN {} ELSE SessionFieldsV3

RoundFails(v, doc, r) ==
    ~(ReadRound(v) \subseteq DOMAIN r /\ ReadSession(v) \subseteq DOMAIN doc)

OptCell(r, k) == IF k \in DOMAIN r THEN CsvCell(r[k]) ELSE "NA"

RoundOfRow(row) == RoundsOf(row.f)[row.ri]

\* v3: an absent move or memory structure is written as "NA" in the
\* player-2 row
C5_NASubstituted ==
    \A i \in DOMAIN csv_output :
        csv_output[i].kind = "p2" =>
            /\ csv_output[i].cells[13] = OptCell(RoundOfRow(csv_output[i]), "player2_move")
            /\ csv_output[i].cells[11] =
                   OptCell(RoundOfRow(csv_output[i]), "player2_memory_struct")

\* v3: a key error while the rounds are processed comes from a field other
\* than the two optional ones
C5_OptionalNeverAborts ==
    (pc = "failed" /\ err = "key" /\ "rounds" \in DOMAIN parsed_data) =>
        RoundFails(version, parsed_data, round_data[ri])

\* C5 as stated: in v3 an absent move or memory structure is written as "NA"
\* and does not abort, and a run cannot complete over a file in which any
\* other round or session field is absent.
C5_AnyOtherAbsenceAborts ==
    version = "v3" =>
        /\ C5_NASubstituted
        /\ C5_OptionalNeverAborts
        /\ pc = "done" =>
             \A f \in Range(files) :
                 /\ SessionFieldsV3 \subseteq DOMAIN DocOf(f)
                 /\ \A k \in DOMAIN RoundsOf(f) :
                      (RoundFields \ OptionalV3) \subseteq DOMAIN RoundsOf(f)[k]

\* C5 (amended): in v3 an absent move or memory structure is written as "NA"
\* in the player-2 row and does not abort; these two are the only fields
\* substituted; the absence of any other field the script reads aborts the
\* run when the rows of a round are built, so a run completes only if every
\* round of every selected file holds the round fields read (player2_id is
\* not among them) and every file with at least one round holds the session
\* fields.
C5_OptionalFields ==
    version = "v3" =>
        /\ C5_NASubstituted
        /\ C5_OptionalNeverAborts
        /\ pc = "done" =>
             \A f \in Range(files) : \A k \in DOMAIN RoundsOf(f) :
                 ~RoundFails("v3", DocOf(f), RoundsOf(f)[k])

C5_Witness ==
    /\ version = "v3"
    /\ pc = "done"
    /\ \E i \in DOMAIN csv_output :
         /\ csv_output[i].kind = "p2"
         /\ "player2_move" \notin DOMAIN RoundOfRow(csv_output[i])
         /\ csv_output[i].cells[13] = "NA"
         /\ csv_output[i].cells[11] = "mem"

(* ------------------------------- C6 ------------------------------------ *)
FileFailsEarly(c) ==
    \/ ~c.readable
    \/ ~c.valid
    \/ "rounds" \notin DOMAIN c.doc

\* the number of leading rounds of rs whose rows can be built
RECURSIVE LeadOK(_, _, _)
LeadOK(v, doc, rs) ==
    IF rs = <<>> THEN 0
    ELSE IF RoundFails(v, doc, Head(rs)) THEN 0
    ELSE 1 + LeadOK(v, doc, Tail(rs))

\* the rows due before the first failure, and whether there is a failure
RECURSIVE TagsUntilFailure(_)
TagsUntilFailure(fl) ==
    IF fl = <<>> THEN [tags |-> <<>>, failed |-> FALSE]
    ELSE LET f == Head(fl)
             c == fs[f]
         IN IF FileFailsEarly(c) THEN [tags |-> <<>>, failed |-> TRUE]
            ELSE LET n == LeadOK(version, c.doc, c.doc["rounds"])
                 IN IF n < Len(c.doc["rounds"])
                    THEN [tags |-> FileTags(f, n), failed |-> TRUE]
                    ELSE LET rest == TagsUntilFailure(Tail(fl))
                         IN [tags |-> FileTags(f, n) \o rest.tags, failed |-> rest.failed]

IsPrefix(a, b) == Len(a) <= Len(b) /\ a = SubSeq(b, 1, Len(a))

\* C6: a file that cannot be read, is not JSON or has no rounds list, and a
\* round that lacks a required field, abort the run at that point: the
\* output holds exactly the rows due before the first failure, in order,
\* no later round or file is processed, and a run with such a file or round
\* does not complete.
C6_AbortNoRecovery ==
    (pc # "init" /\ dir_ok) =>
        LET e == TagsUntilFailure(files) IN
        /\ IsPrefix(Tags(DataRows), e.tags)
        /\ IsPrefix(opened, files)
        /\ pc = "failed" =>
             /\ e.failed
             /\ Tags(DataRows) = e.tags
             /\ Len(opened) \in {fi - 1, fi}
        /\ pc = "done" => ~e.failed /\ Tags(DataRows) = e.tags

C6_Witness ==
    /\ pc = "failed"
    /\ err = "key"
    /\ Len(files) = 2
    /\ fi = 1
    /\ ri = 2
    /\ Len(DataRows) = 2
    /\ ~FileFailsEarly(fs[files[2]])
    /\ Len(RoundsOf(files[2])) > 0
    /\ opened = <<files[1]>>

(* ------------------------------- C7 ------------------------------------ *)
SessionCols ==
    {"version", "is_sona_autocredit", "sona_experiment_id", "sona_credit_token",
     "sona_survey_code", "bot_strategy"}

SessionKey(col) ==
    CASE col = "version" -> "version"
      [] col = "is_sona_autocredit" -> "sona"
      [] col = "sona_experiment_id" -> "experiment_id"
      [] col = "sona_credit_token" -> "credit_token"
      [] col = "sona_survey_code" -> "survey_code"
      [] col = "bot_strategy" -> "player2_bot_strategy"

PlayerKey(p, col) ==
    (IF p = "p1" THEN "player1_" ELSE "player2_") \o
    (CASE col = "player_id" -> "id"
       [] col = "player_move" -> "move"
       [] col = "player_rt" -> "rt"
       [] col = "player_outcome" -> "outcome"
       [] col = "player_outcome_viewtime" -> "outcome_viewtime"
       [] col = "player_points" -> "points"
       [] col = "player_total" -> "total")

\* the content of column col of the row of player p; p1mem is what the
\* player-1 row holds under bot_round_memory
ExpCell(v, p, col, doc, r, p1mem) ==
    IF col \in {"game_id", "round_index", "round_begin_ts"} THEN CsvCell(r[col])
    ELSE IF col = "is_bot" THEN (IF p = "p1" THEN "0" ELSE "1")
    ELSE IF col = "bot_round_memory"
         THEN (IF p = "p1" THEN p1mem ELSE OptCell(r, "player2_memory_struct"))
    ELSE IF col \in SessionCols THEN CsvCell(doc[SessionKey(col)])
    ELSE IF v = "v3" /\ p = "p2" /\ col = "player_id" THEN CsvCell(doc["player2_botid"])
    ELSE IF v = "v3" /\ p = "p2" /\ col = "player_move" THEN OptCell(r, "player2_move")
    ELSE CsvCell(r[PlayerKey(p, col)])

RowAsExpected(row, p1mem) ==
    /\ Len(row.cells) = Len(header(version))
    /\ \A j \in DOMAIN row.cells :
         row.cells[j] = ExpCell(version, row.kind, header(version)[j],
                                DocOf(row.f), RoundOfRow(row), p1mem)

SessionValuesShared ==
    \A i, k \in DOMAIN csv_output :
        (/\ IsData(csv_output[i]) /\ IsData(csv_output[k])
         /\ csv_output[i].f = csv_output[k].f /\ csv_output[i].ri = csv_output[k].ri) =>
            \A j \in DOMAIN header(version) :
                header(version)[j] \in SessionCols =>
                    csv_output[i].cells[j] = csv_output[k].cells[j]

\* C7 as stated: every field of a row is the JSON field it is taken from,
\* but for is_bot and for an optional field written as "NA" because it is
\* absent.
C7_IdentityButIsBotAndAbsent ==
    /\ \A i \in DOMAIN csv_output :
         IsData(csv_output[i]) =>
             RowAsExpected(csv_output[i],
                           OptCell(RoundOfRow(csv_output[i]), "player2_memory_struct"))
    /\ SessionValuesShared

\* C7 (amended): every field of a row is the JSON field it is taken from, as
\* the CSV writer renders it, but for is_bot (0 in the player-1 row, 1 in
\* the player-2 row), for an absent optional field written as "NA" in the
\* player-2 row, and for bot_round_memory in the player-1 row, which is
\* "NA" whether or not the round holds a memory structure; in v3 the
\* session-level values are the same in the two rows of a round.
C7_FieldsIdentity ==
    /\ \A i \in DOMAIN csv_output :
         IsData(csv_output[i]) => RowAsExpected(csv_output[i], "NA")
    /\ SessionValuesShared

C7_Witness ==
    /\ version = "v3"
    /\ pc = "done"
    /\ \E i \in DOMAIN csv_output :
         /\ csv_output[i].kind = "p1"
         /\ RoundOfRow(csv_output[i]) = R_full
         /\ csv_output[i].cells[9] = "0"
         /\ csv_output[i].cells[11] = "NA"
         /\ csv_output[i].cells[14] = "500"
         /\ csv_output[i + 1].kind = "p2"
         /\ csv_output[i + 1].cells[9] = "1"
         /\ csv_output[i + 1].cells[11] = "mem"
         /\ csv_output[i + 1].cells[2] = csv_output[i].cells[2]

(* ------------------------------- C8 ------------------------------------ *)
\* C8: a second run over the unchanged directory leaves the output file as
\* the first run left it, and nothing the file held before a run survives it.
C8_Idempotent ==
    /\ (runs >= 2 /\ Ended) => csv_output = prev_output
    /\ pc # "init" => \A i \in DOMAIN csv_output : csv_output[i].kind # "old"
    /\ (runs = 1 /\ pc = "files" /\ fi = 1) => csv_output = <<>>

C8_Witness ==
    /\ runs = 2
    /\ pc = "done"
    /\ Len(csv_output) >= 3
    /\ csv_output = prev_output

(* ------------------------------- C9 ------------------------------------ *)
Last(q) == q[Len(q)]

ProgressPerFile ==
    /\ stdout = opened
    /\ IsPrefix(stdout, files)
    /\ pc = "done" => stdout = files

\* C9 as stated: one progress line per file processed, and after any
\* failure while a file is being processed the last progress line names
\* that file.
C9_LastLineNamesFailedFile ==
    /\ ProgressPerFile
    /\ (pc = "failed" /\ err # "listdir") =>
           stdout # <<>> /\ Last(stdout) = files[fi]

\* C9 (amended): one progress line is printed per file opened, in order;
\* after a decoding or schema failure the last progress line names the file
\* being processed; when opening a file fails no line is printed for it, so
\* the lines name the files before it only.
C9_ProgressLines ==
    /\ ProgressPerFile
    /\ (pc = "failed" /\ err \in {"json", "key"}) =>
           stdout # <<>> /\ Last(stdout) = files[fi]
    /\ (pc = "failed" /\ err = "open") => stdout = SubSeq(files, 1, fi - 1)
    /\ (pc = "failed" /\ err = "listdir") => stdout = <<>>

C9_Witness ==
    /\ pc = "failed"
    /\ err = "key"
    /\ fi = 2
    /\ stdout = files
    /\ Last(stdout) = files[2]

(* ------------------------------- C10 ----------------------------------- *)
\* C10: when a run has ended, normally or by an error, the data rows come in
\* pairs: their number is even, every player-1 row is followed at once by
\* the player-2 row of the same round, and a round that lacks a required
\* field has no row.
C10_RowsInPairs ==
    Ended =>
        /\ Len(DataRows) % 2 = 0
        /\ \A k \in DOMAIN DataRows :
             /\ DataRows[k].kind = (IF k % 2 = 1 THEN "p1" ELSE "p2")
             /\ k % 2 = 1 =>
                  /\ k + 1 \in DOMAIN DataRows
                  /\ DataRows[k + 1].f = DataRows[k].f
                  /\ DataRows[k + 1].ri = DataRows[k].ri
             /\ ~RoundFails(version, DocOf(DataRows[k].f), RoundOfRow(DataRows[k]))

C10_Witness ==
    /\ pc = "failed"
    /\ err = "key"
    /\ ri = 2
    /\ Len(DataRows) = 2
    /\ ~KeyError(P1Template(version), parsed_data, round_data[ri])
    /\ "player2_total" \notin DOMAIN round_data[ri]

====
